---- MODULE Spec2Model ----
(***************************************************************************)
(* Model of Config.Prepare of the VirtualBox "vm" builder                  *)
(* (builder/virtualbox/vm/config.go).  Prepare is one synchronous call;    *)
(* the model follows it block by block with a program counter.  The raw    *)
(* configuration, the errors of the embedded configurations, the outcome   *)
(* of NewDriver and the outcome of LoadSnapshots are the inputs, drawn     *)
(* from small sets at the step that reads them.                            *)
(***************************************************************************)
EXTENDS Integers, Sequences, FiniteSets, TLC

VARIABLES pc, c, embedded, errs, warnings, driver, load, snapshotTree,
          attachSnapshot, ret

vars == <<pc, c, embedded, errs, warnings, driver, load, snapshotTree,
          attachSnapshot, ret>>

(***************************************************************************)
(* Bounds and input sets                                                   *)
(***************************************************************************)
\* largest number of snapshots of a VM
MaxNodes == 3

\* names snapshots of the VM carry
NodeNames == {"root", "built"}

\* values of attach_snapshot and target_snapshot ("other" names no snapshot)
SnapshotNameInputs == {""} \cup NodeNames \cup {"other"}

\* values of guest_additions_mode ("bogus" is no valid mode)
ModeInputs == {"", "attach", "bogus"}

\* the remaining defaulted fields, unset or set together
OtherFieldInputs ==
    { [GuestAdditionsPath |-> "", PostShutdownDelay |-> 0, GuestAdditionsSHA256 |-> ""],
      [GuestAdditionsPath |-> "ga.iso", PostShutdownDelay |-> 5, GuestAdditionsSHA256 |-> "AB"] }

\* the nil pointer of *VBoxSnapshot
NilSnapshot == 0

\* time.Second, in seconds
Second == 1

(***************************************************************************)
(* The configuration structure                                             *)
(***************************************************************************)
\* the zero value of Config
ZeroConfig ==
    [ GuestAdditionsMode   |-> "",
      GuestAdditionsPath   |-> "",
      GuestAdditionsSHA256 |-> "",
      PostShutdownDelay    |-> 0,
      VMName               |-> "",
      AttachSnapshot       |-> "",
      TargetSnapshot       |-> "",
      DeleteTargetSnapshot |-> FALSE,
      SkipExport           |-> FALSE,
      ShutdownCommand      |-> "" ]

\* the configurations config.Decode can produce
ConfigInputs ==
    { [ GuestAdditionsMode   |-> m,
        GuestAdditionsPath   |-> o.GuestAdditionsPath,
        GuestAdditionsSHA256 |-> o.GuestAdditionsSHA256,
        PostShutdownDelay    |-> o.PostShutdownDelay,
        VMName               |-> vm,
        AttachSnapshot       |-> a,
        TargetSnapshot       |-> t,
        DeleteTargetSnapshot |-> del,
        SkipExport           |-> skip,
        ShutdownCommand      |-> sc ] :
        m \in ModeInputs, o \in OtherFieldInputs, vm \in {"", "vm"},
        a \in SnapshotNameInputs, t \in SnapshotNameInputs,
        del \in BOOLEAN, skip \in BOOLEAN, sc \in {"", "halt"} }

(***************************************************************************)
(* The snapshot tree: node i has UUID i, name[i] and parent[i]             *)
(* (NilSnapshot for the root); current is the snapshot the VM is attached  *)
(* to.  The nil tree (VM without snapshots) has no node.  LoadSnapshots     *)
(* hands Prepare one root; every node but the root has a parent that comes  *)
(* before it in tree order, and a present tree always has a current         *)
(* snapshot.                                                               *)
(***************************************************************************)
NilTree == [name |-> <<>>, parent |-> <<>>, current |-> NilSnapshot]

ParentMaps(n) ==
    { p \in [1..n -> 0..n] :
        /\ p[1] = NilSnapshot
        /\ \A i \in 2..n : p[i] \in 1..(i - 1) }

Trees ==
    UNION { { [name |-> nm, parent |-> p, current |-> cur] :
                nm \in [1..n -> NodeNames], p \in ParentMaps(n), cur \in 1..n } :
            n \in 1..MaxNodes }

Nodes(tree) == 1..Len(tree.name)

\* VBoxSnapshot.GetCurrentSnapshot
GetCurrentSnapshot(tree) == tree.current

RECURSIVE ByName(_, _, _)
ByName(tree, name, i) ==
    IF i > Len(tree.name) THEN <<>>
    ELSE IF tree.name[i] = name THEN <<i>> \o ByName(tree, name, i + 1)
    ELSE ByName(tree, name, i + 1)

\* VBoxSnapshot.GetSnapshotsByName: every node of that name, in tree order
GetSnapshotsByName(tree, name) == ByName(tree, name, 1)

(***************************************************************************)
(* Initial state: Prepare has been called on a zero Config                 *)
(***************************************************************************)
NoReturn == [returned |-> FALSE, warnings |-> <<>>, err |-> <<>>, isNil |-> TRUE]

Init ==
    /\ pc = "decode"
    /\ c = ZeroConfig
    /\ embedded = <<>>
    /\ errs = <<>>
    /\ warnings = <<>>
    /\ driver = "none"
    /\ load = "none"
    /\ snapshotTree = NilTree
    /\ attachSnapshot = NilSnapshot
    /\ ret = NoReturn

(***************************************************************************)
(* config.Decode, lines 94-109.  A failing Decode returns at once with no   *)
(* warnings; the model leaves the Config at its zero value then.           *)
(***************************************************************************)
Decode ==
    /\ pc = "decode"
    /\ \E ok \in BOOLEAN :
         IF ok
         THEN /\ \E cfg \in ConfigInputs : c' = cfg
              /\ pc' = "defaults"
              /\ ret' = ret
         ELSE /\ c' = c
              /\ pc' = "done"
              /\ ret' = [returned |-> TRUE, warnings |-> <<>>,
                         err |-> <<"ErrDecode">>, isNil |-> FALSE]
    /\ UNCHANGED <<embedded, errs, warnings, driver, load, snapshotTree, attachSnapshot>>

(***************************************************************************)
(* Defaults, lines 111-122                                                 *)
(***************************************************************************)
ApplyDefaults(cfg) ==
    [cfg EXCEPT
        !.GuestAdditionsMode = IF @ = "" THEN "upload" ELSE @,
        !.GuestAdditionsPath = IF @ = "" THEN "VBoxGuestAdditions.iso" ELSE @,
        !.PostShutdownDelay  = IF @ = 0 THEN 2 * Second ELSE @]

Defaults ==
    /\ pc = "defaults"
    /\ c' = ApplyDefaults(c)
    /\ pc' = "embedded"
    /\ UNCHANGED <<embedded, errs, warnings, driver, load, snapshotTree, attachSnapshot, ret>>

(***************************************************************************)
(* Errors of the embedded configurations and field checks, lines 124-165   *)
(***************************************************************************)
\* what the ten embedded Prepare calls of lines 126-135 can report together
EmbeddedErrorInputs == { <<>>, <<"ErrEmbedded">> }

\* validModes, lines 145-149
ValidModes == <<"disable", "attach", "upload">>

\* the loop of lines 151-156
ValidMode(mode) == \E i \in 1..Len(ValidModes) : mode = ValidModes[i]

\* strings.ToLower on the checksums of the input set
ToLower(s) == IF s = "AB" THEN "ab" ELSE s

\* lines 139-142
VMNameErrors(cfg) ==
    IF cfg.VMName = "" THEN <<"ErrVMNameRequired">> ELSE <<>>

\* lines 144-161
ModeErrors(cfg) ==
    IF ~ValidMode(cfg.GuestAdditionsMode) THEN <<"ErrInvalidMode">> ELSE <<>>

PrepareEmbedded ==
    /\ pc = "embedded"
    /\ \E e \in EmbeddedErrorInputs :
         /\ embedded' = e
         /\ errs' = e \o VMNameErrors(c) \o ModeErrors(c)
    /\ c' = [c EXCEPT !.GuestAdditionsSHA256 = IF @ # "" THEN ToLower(@) ELSE @]
    /\ pc' = "warnings"
    /\ UNCHANGED <<warnings, driver, load, snapshotTree, attachSnapshot, ret>>

(***************************************************************************)
(* Warnings, lines 167-179                                                 *)
(***************************************************************************)
Warnings(cfg) ==
    (IF cfg.TargetSnapshot = "" /\ cfg.SkipExport
       THEN <<"WarnChangesLost">> ELSE <<>>)
    \o (IF cfg.ShutdownCommand = "" THEN <<"WarnForcedHalt">> ELSE <<>>)

CollectWarnings ==
    /\ pc = "warnings"
    /\ warnings' = Warnings(c)
    /\ pc' = "driver"
    /\ UNCHANGED <<c, embedded, errs, driver, load, snapshotTree, attachSnapshot, ret>>

(***************************************************************************)
(* vboxcommon.NewDriver and the attach = target check, lines 181-187       *)
(***************************************************************************)
\* lines 185-187 with the comparison inverted
SameSnapshotErrorsInverted(cfg) ==
    IF cfg.AttachSnapshot # "" /\ cfg.TargetSnapshot # ""
         /\ cfg.AttachSnapshot # cfg.TargetSnapshot
    THEN <<"ErrSameAttachAndTarget">> ELSE <<>>

\* lines 185-187
SameSnapshotErrors(cfg) ==
    IF cfg.AttachSnapshot # "" /\ cfg.TargetSnapshot # ""
         /\ cfg.AttachSnapshot = cfg.TargetSnapshot
    THEN <<"ErrSameAttachAndTarget">> ELSE <<>>

\* the errors appended once NewDriver has returned with or without an error
DriverErrors(cfg, ok) ==
    IF ~ok THEN <<"ErrDriver">> ELSE SameSnapshotErrors(cfg)

NewDriver ==
    /\ pc = "driver"
    /\ \E ok \in BOOLEAN :
         /\ driver' = IF ok THEN "ok" ELSE "failed"
         /\ errs' = errs \o DriverErrors(c, ok)
         /\ pc' = IF ok THEN "load" ELSE "return"
    /\ UNCHANGED <<c, embedded, warnings, load, snapshotTree, attachSnapshot, ret>>

(***************************************************************************)
(* driver.LoadSnapshots and the current snapshot, lines 188-199            *)
(***************************************************************************)
\* the outcomes of driver.LoadSnapshots: an error, no snapshots, or a tree
LoadOutcomes ==
    { [err |-> TRUE, tree |-> NilTree], [err |-> FALSE, tree |-> NilTree] }
    \cup { [err |-> FALSE, tree |-> t] : t \in Trees }

\* lines 190-191
LoadErrors(err) == IF err THEN <<"ErrLoadSnapshots">> ELSE <<>>

\* lines 195-199 with the root of the tree taken for the current snapshot
CurrentAttachRoot(tree) ==
    IF tree # NilTree THEN 1 ELSE NilSnapshot

\* lines 195-199
CurrentAttach(tree) ==
    IF tree # NilTree THEN GetCurrentSnapshot(tree) ELSE NilSnapshot

\* lines 188-199 going on to the snapshot checks after a failed LoadSnapshots
LoadSnapshotsContinues ==
    /\ pc = "load"
    /\ \E o \in LoadOutcomes :
         /\ load' = IF o.err THEN "failed" ELSE "ok"
         /\ snapshotTree' = o.tree
         /\ errs' = errs \o LoadErrors(o.err)
         /\ attachSnapshot' = CurrentAttach(o.tree)
         /\ pc' = "attach"
    /\ UNCHANGED <<c, embedded, warnings, driver, ret>>

LoadSnapshots ==
    /\ pc = "load"
    /\ \E o \in LoadOutcomes :
         /\ load' = IF o.err THEN "failed" ELSE "ok"
         /\ snapshotTree' = o.tree
         /\ errs' = errs \o LoadErrors(o.err)
         /\ attachSnapshot' = IF o.err THEN NilSnapshot ELSE CurrentAttach(o.tree)
         /\ pc' = IF o.err THEN "return" ELSE "attach"
    /\ UNCHANGED <<c, embedded, warnings, driver, ret>>

(***************************************************************************)
(* attach_snapshot, lines 200-214                                          *)
(***************************************************************************)
\* lines 200-214 with the first of several matches accepted silently
AttachErrorsFirstMatch(cfg, tree) ==
    IF cfg.AttachSnapshot = "" THEN <<>>
    ELSE IF tree = NilTree THEN <<"ErrNoSnapshotsDefined">>
    ELSE LET snapshots == GetSnapshotsByName(tree, cfg.AttachSnapshot)
         IN  IF 0 >= Len(snapshots) THEN <<"ErrAttachSnapshotNotFound">>
             ELSE <<>>

\* lines 200-214 with the nil tree only logged, as lines 217-218 do for the target
AttachErrorsNilTreeLogged(cfg, tree) ==
    IF cfg.AttachSnapshot = "" THEN <<>>
    ELSE IF tree = NilTree THEN <<>>
    ELSE LET snapshots == GetSnapshotsByName(tree, cfg.AttachSnapshot)
         IN  IF 0 >= Len(snapshots) THEN <<"ErrAttachSnapshotNotFound">>
             ELSE IF 1 < Len(snapshots) THEN <<"ErrAttachSnapshotAmbiguous">>
             ELSE <<>>

AttachErrors(cfg, tree) ==
    IF cfg.AttachSnapshot = "" THEN <<>>
    ELSE IF tree = NilTree THEN <<"ErrNoSnapshotsDefined">>
    ELSE LET snapshots == GetSnapshotsByName(tree, cfg.AttachSnapshot)
         IN  IF 0 >= Len(snapshots) THEN <<"ErrAttachSnapshotNotFound">>
             ELSE IF 1 < Len(snapshots) THEN <<"ErrAttachSnapshotAmbiguous">>
             ELSE <<>>

\* the value of attachSnapshot after lines 200-214; it is assigned on line 211 only
ResolveAttach(cfg, tree, attach) ==
    IF cfg.AttachSnapshot # "" /\ tree # NilTree
    THEN LET snapshots == GetSnapshotsByName(tree, cfg.AttachSnapshot)
         IN  IF Len(snapshots) = 1 THEN snapshots[1] ELSE attach
    ELSE attach

CheckAttach ==
    /\ pc = "attach"
    /\ errs' = errs \o AttachErrors(c, snapshotTree)
    /\ attachSnapshot' = ResolveAttach(c, snapshotTree, attachSnapshot)
    /\ pc' = "target"
    /\ UNCHANGED <<c, embedded, warnings, driver, load, snapshotTree, ret>>

(***************************************************************************)
(* target_snapshot, lines 215-246                                          *)
(***************************************************************************)
\* snapshot.Parent, nil for the root
Parent(tree, snapshot) == tree.parent[snapshot]

\* one iteration of the loop body, line 231 (UUIDs are the node numbers)
IsChildOf(tree, snapshot, attach) ==
    NilSnapshot # Parent(tree, snapshot) /\ Parent(tree, snapshot) = attach

\* the loop of lines 228-232: isChild is assigned on every iteration
RECURSIVE IsChildLoop(_, _, _, _, _)
IsChildLoop(tree, snapshots, attach, i, isChild) ==
    IF i > Len(snapshots) THEN isChild
    ELSE IsChildLoop(tree, snapshots, attach, i + 1,
                     IsChildOf(tree, snapshots[i], attach))

\* lines 223-243
ExistingTargetErrors(cfg, tree, attach) ==
    LET snapshots == GetSnapshotsByName(tree, cfg.TargetSnapshot)
    IN  IF 0 < Len(snapshots)
        THEN LET isChild == IsChildLoop(tree, snapshots, attach, 1, FALSE)
             IN  IF ~isChild THEN <<"ErrTargetNotDirectChild">>
                 ELSE IF ~cfg.DeleteTargetSnapshot THEN <<"ErrTargetAlreadyExists">>
                 ELSE <<>>
        ELSE <<>>

\* lines 215-246, for a non-nil attachSnapshot
TargetErrors(cfg, tree, attach) ==
    IF cfg.TargetSnapshot = "" THEN <<>>
    ELSE IF tree = NilTree THEN <<>>
    ELSE IF cfg.TargetSnapshot = tree.name[attach] THEN <<"ErrTargetEqualsAttach">>
    ELSE ExistingTargetErrors(cfg, tree, attach)

\* attachSnapshot.Name on line 220 dereferences a nil pointer (and line 226 panics)
TargetPanics(cfg, tree, attach) ==
    cfg.TargetSnapshot # "" /\ tree # NilTree /\ attach = NilSnapshot

\* lines 215-246 returning as soon as an earlier check has reported an error
CheckTargetShortCircuit ==
    /\ pc = "target"
    /\ IF TargetPanics(c, snapshotTree, attachSnapshot)
       THEN /\ pc' = "panic"
            /\ errs' = errs
       ELSE /\ pc' = "return"
            /\ errs' = IF Len(errs) > 0 THEN errs
                       ELSE errs \o TargetErrors(c, snapshotTree, attachSnapshot)
    /\ UNCHANGED <<c, embedded, warnings, driver, load, snapshotTree, attachSnapshot, ret>>

CheckTarget ==
    /\ pc = "target"
    /\ IF TargetPanics(c, snapshotTree, attachSnapshot)
       THEN /\ pc' = "panic"
            /\ errs' = errs
       ELSE /\ pc' = "return"
            /\ errs' = errs \o TargetErrors(c, snapshotTree, attachSnapshot)
    /\ UNCHANGED <<c, embedded, warnings, driver, load, snapshotTree, attachSnapshot, ret>>

(***************************************************************************)
(* Return, lines 249-254                                                   *)
(***************************************************************************)
\* errs != nil && len(errs.Errors) > 0
HasErrors(es) == Len(es) > 0

\* lines 249-254 failing on warnings as well
ReturnValueWarningsFail(ws, es) ==
    [returned |-> TRUE, warnings |-> ws,
     err |-> IF HasErrors(es) \/ Len(ws) > 0 THEN es ELSE <<>>,
     isNil |-> ~(HasErrors(es) \/ Len(ws) > 0)]

ReturnValue(ws, es) ==
    [returned |-> TRUE, warnings |-> ws,
     err |-> IF HasErrors(es) THEN es ELSE <<>>, isNil |-> ~HasErrors(es)]

Return ==
    /\ pc = "return"
    /\ ret' = ReturnValue(warnings, errs)
    /\ pc' = "done"
    /\ UNCHANGED <<c, embedded, errs, warnings, driver, load, snapshotTree, attachSnapshot>>

Next ==
    \/ Decode
    \/ Defaults
    \/ PrepareEmbedded
    \/ CollectWarnings
    \/ NewDriver
    \/ LoadSnapshots
    \/ CheckAttach
    \/ CheckTarget
    \/ Return

Spec == Init /\ [][Next]_vars

(***************************************************************************)
(* Vocabulary of the properties                                            *)
(***************************************************************************)
\* the errors of a list, as a set
ErrorSet(es) == { es[i] : i \in 1..Len(es) }

\* Prepare has returned after a successful Decode
Finished == pc = "done" /\ driver # "none"

\* the errors Prepare returned
Returned == ErrorSet(ret.err)

ConstraintErrors ==
    { "ErrSameAttachAndTarget", "ErrNoSnapshotsDefined", "ErrAttachSnapshotNotFound",
      "ErrAttachSnapshotAmbiguous", "ErrTargetEqualsAttach", "ErrTargetNotDirectChild",
      "ErrTargetAlreadyExists" }

TargetErrorKinds ==
    { "ErrTargetEqualsAttach", "ErrTargetNotDirectChild", "ErrTargetAlreadyExists" }

\* the snapshot tree was loaded and the VM has snapshots
TreePresent == load = "ok" /\ snapshotTree # NilTree

\* the snapshot tree was loaded and the VM has no snapshot
TreeAbsent == load = "ok" /\ snapshotTree = NilTree

\* the nodes of the loaded tree that carry the name
Named(name) == { i \in Nodes(snapshotTree) : snapshotTree.name[i] = name }

\* the nodes named target_snapshot whose parent is node a
ChildrenNamedTarget(a) ==
    { i \in Named(c.TargetSnapshot) : snapshotTree.parent[i] = a }

\* attach_snapshot names exactly one node of the loaded tree
AttachUnique == c.AttachSnapshot # "" /\ Cardinality(Named(c.AttachSnapshot)) = 1

\* the attach point the specification resolves: the unique node named
\* attach_snapshot, the current snapshot without attach_snapshot, else none
ResolvedAttach ==
    IF c.AttachSnapshot = "" THEN snapshotTree.current
    ELSE IF AttachUnique THEN CHOOSE i \in Named(c.AttachSnapshot) : TRUE
    ELSE NilSnapshot

(***************************************************************************)
(* C1: attach_snapshot = target_snapshot                                   *)
(***************************************************************************)
SameNames ==
    c.AttachSnapshot # "" /\ c.TargetSnapshot # "" /\ c.AttachSnapshot = c.TargetSnapshot

\* C1 as stated: every run of Prepare with attach_snapshot and target_snapshot
\* non-empty and equal returns ErrSameAttachAndTarget among its errors.
C1_EveryRunReportsSame ==
    (Finished /\ SameNames) => "ErrSameAttachAndTarget" \in Returned

\* C1 amended: every run of Prepare in which the VirtualBox driver was created and
\* attach_snapshot and target_snapshot are non-empty and equal returns
\* ErrSameAttachAndTarget among its errors, whether the snapshot tree is present,
\* absent or failed to load, and whatever other errors are reported.
C1_SameReportedOnceDriverCreated ==
    (Finished /\ driver = "ok" /\ SameNames) => "ErrSameAttachAndTarget" \in Returned

\* a run on a present tree that reports the error next to an attach error
C1_Witness ==
    /\ Finished /\ driver = "ok" /\ SameNames /\ TreePresent
    /\ "ErrSameAttachAndTarget" \in Returned
    /\ "ErrAttachSnapshotAmbiguous" \in Returned

(***************************************************************************)
(* C2, C3: an existing target snapshot                                     *)
(***************************************************************************)
\* the existing-target check is the one the run performs: the tree is present,
\* the attach point is the resolved one and target_snapshot names some node
\* other than the attach point's name
ExistingTargetChecked ==
    /\ Finished /\ TreePresent
    /\ ResolvedAttach # NilSnapshot
    /\ c.TargetSnapshot # ""
    /\ Named(c.TargetSnapshot) # {}
    /\ c.TargetSnapshot # snapshotTree.name[ResolvedAttach]

\* C2: when the tree is present and some node is named target_snapshot, the
\* direct-child test is existential over the nodes of that name:
\* ErrTargetNotDirectChild is returned iff no such node has the attach point as
\* parent; when at least one has, ErrTargetAlreadyExists is returned iff
\* force_delete_snapshot is false, and no target error when it is true.
C2_DirectChildIsExistential ==
    ExistingTargetChecked =>
        LET children == ChildrenNamedTarget(ResolvedAttach)
        IN  /\ ("ErrTargetNotDirectChild" \in Returned) <=> (children = {})
            /\ (children # {} /\ ~c.DeleteTargetSnapshot)
                   => "ErrTargetAlreadyExists" \in Returned
            /\ (children # {} /\ c.DeleteTargetSnapshot)
                   => Returned \cap TargetErrorKinds = {}

\* C3: when attach_snapshot names exactly one node A and some node named
\* target_snapshot has A as parent, the constraint errors returned are exactly
\* {ErrTargetAlreadyExists} without force_delete_snapshot and none with it,
\* also when further nodes named target_snapshot are no children of A.
C3_ExistingChildOfUniqueAttach ==
    (/\ Finished /\ TreePresent /\ AttachUnique
     /\ ChildrenNamedTarget(ResolvedAttach) # {})
        => Returned \cap ConstraintErrors =
               IF c.DeleteTargetSnapshot THEN {} ELSE {"ErrTargetAlreadyExists"}

(***************************************************************************)
(* C4: resolution of attach_snapshot on a present tree                     *)
(***************************************************************************)
\* lines 200-214 have run on a present tree with attach_snapshot set
AttachChecked ==
    pc \in {"target", "return", "done"} /\ TreePresent /\ c.AttachSnapshot # ""

\* C4: on a present tree with attach_snapshot set, no node of that name gives
\* ErrAttachSnapshotNotFound and not Ambiguous, several nodes give
\* ErrAttachSnapshotAmbiguous and not NotFound, and exactly one node gives neither
\* error and is the attach point the target checks use.
C4_AttachResolution ==
    AttachChecked =>
        LET n == Cardinality(Named(c.AttachSnapshot))
            reported == IF pc = "done" THEN Returned ELSE ErrorSet(errs)
        IN  /\ ("ErrAttachSnapshotNotFound" \in reported) <=> (n = 0)
            /\ ("ErrAttachSnapshotAmbiguous" \in reported) <=> (n > 1)
            /\ (n = 1) => attachSnapshot \in Named(c.AttachSnapshot)

\* two nodes carry the attach name and the run has reported the ambiguity
C4_Witness ==
    /\ Finished /\ AttachChecked
    /\ Cardinality(Named(c.AttachSnapshot)) = 2
    /\ "ErrAttachSnapshotAmbiguous" \in Returned

(***************************************************************************)
(* C5: the VM has no snapshots                                             *)
(***************************************************************************)
\* C5: when LoadSnapshots returns no tree, ErrNoSnapshotsDefined is returned iff
\* attach_snapshot is set, no target error is returned and Prepare does not panic,
\* whatever target_snapshot is; without attach_snapshot and with target_snapshot
\* no constraint error is returned at all.
C5_AbsentTree ==
    /\ TreeAbsent => pc # "panic"
    /\ (Finished /\ TreeAbsent) =>
          /\ ("ErrNoSnapshotsDefined" \in Returned) <=> (c.AttachSnapshot # "")
          /\ Returned \cap TargetErrorKinds = {}
          /\ (c.AttachSnapshot = "" /\ c.TargetSnapshot # "")
                 => Returned \cap ConstraintErrors = {}

\* a finished run on an absent tree with both names set and different
C5_Witness ==
    /\ Finished /\ TreeAbsent
    /\ c.AttachSnapshot # "" /\ c.TargetSnapshot # ""
    /\ c.AttachSnapshot # c.TargetSnapshot
    /\ Returned \cap ConstraintErrors = {"ErrNoSnapshotsDefined"}

(***************************************************************************)
(* C6: the attach point and a target of the same name                      *)
(***************************************************************************)
\* C6: on a present tree without attach_snapshot the attach point is the current
\* snapshot; and whenever the tree is present and target_snapshot is the name of
\* the resolved attach point, ErrTargetEqualsAttach is returned.
C6_TargetEqualsAttach ==
    /\ (pc \in {"target", "return", "done"} /\ TreePresent /\ c.AttachSnapshot = "")
          => attachSnapshot = snapshotTree.current
    /\ (/\ Finished /\ TreePresent /\ c.TargetSnapshot # ""
        /\ ResolvedAttach # NilSnapshot
        /\ c.TargetSnapshot = snapshotTree.name[ResolvedAttach])
          => "ErrTargetEqualsAttach" \in Returned

\* no attach_snapshot, the current snapshot is not the root, and the target
\* carries the current snapshot's name
C6_Witness ==
    /\ Finished /\ TreePresent /\ c.AttachSnapshot = ""
    /\ snapshotTree.current # 1
    /\ c.TargetSnapshot = snapshotTree.name[snapshotTree.current]
    /\ c.TargetSnapshot # snapshotTree.name[1]
    /\ "ErrTargetEqualsAttach" \in Returned

(***************************************************************************)
(* C7: accumulation of the errors                                          *)
(***************************************************************************)
\* the field errors of lines 126-161 are among the returned errors
FieldErrorsReturned ==
    /\ ErrorSet(embedded) \subseteq Returned
    /\ ("ErrVMNameRequired" \in Returned) <=> (c.VMName = "")
    /\ ("ErrInvalidMode" \in Returned)
           <=> (c.GuestAdditionsMode \notin {"disable", "attach", "upload"})

\* C7 as stated, on the runs whose attach point is resolved: the error of every
\* target check whose condition holds is returned, and ErrTargetEqualsAttach does
\* not suppress the check of the existing nodes named target_snapshot.
C7_EqualsAttachKeepsExistingCheck ==
    (/\ Finished /\ TreePresent /\ ResolvedAttach # NilSnapshot
     /\ c.TargetSnapshot # "" /\ Named(c.TargetSnapshot) # {})
        => /\ (c.TargetSnapshot = snapshotTree.name[ResolvedAttach])
                  => "ErrTargetEqualsAttach" \in Returned
           /\ (ChildrenNamedTarget(ResolvedAttach) = {})
                  => "ErrTargetNotDirectChild" \in Returned
           /\ (/\ Named(c.TargetSnapshot) \subseteq ChildrenNamedTarget(ResolvedAttach)
               /\ ~c.DeleteTargetSnapshot)
                  => "ErrTargetAlreadyExists" \in Returned

\* C7 amended: on a present tree no error suppresses a later check, except that
\* ErrTargetEqualsAttach and the check of the existing nodes named target_snapshot
\* are alternatives.  The field errors, ErrSameAttachAndTarget and the attach
\* error are all returned; with them, when target_snapshot is the name of the
\* attach point in use only ErrTargetEqualsAttach is returned of the target
\* errors, and otherwise ErrTargetNotDirectChild is returned when no node named
\* target_snapshot is a child of the attach point and ErrTargetAlreadyExists when
\* all of them are and force_delete_snapshot is false.
C7_ErrorsAccumulate ==
    (Finished /\ TreePresent) =>
        /\ FieldErrorsReturned
        /\ ("ErrSameAttachAndTarget" \in Returned) <=> SameNames
        /\ (c.AttachSnapshot # "") =>
              /\ ("ErrAttachSnapshotNotFound" \in Returned)
                     <=> (Named(c.AttachSnapshot) = {})
              /\ ("ErrAttachSnapshotAmbiguous" \in Returned)
                     <=> (Cardinality(Named(c.AttachSnapshot)) > 1)
        /\ (c.TargetSnapshot # "") =>
              IF c.TargetSnapshot = snapshotTree.name[attachSnapshot]
              THEN Returned \cap TargetErrorKinds = {"ErrTargetEqualsAttach"}
              ELSE /\ "ErrTargetEqualsAttach" \notin Returned
                   /\ (/\ Named(c.TargetSnapshot) # {}
                       /\ ChildrenNamedTarget(attachSnapshot) = {})
                          => "ErrTargetNotDirectChild" \in Returned
                   /\ (/\ Named(c.TargetSnapshot) # {}
                       /\ Named(c.TargetSnapshot) \subseteq ChildrenNamedTarget(attachSnapshot)
                       /\ ~c.DeleteTargetSnapshot)
                          => "ErrTargetAlreadyExists" \in Returned

\* a field error, an attach error and a target error returned by one run
C7_Witness ==
    /\ Finished /\ TreePresent
    /\ "ErrVMNameRequired" \in Returned
    /\ "ErrAttachSnapshotAmbiguous" \in Returned
    /\ "ErrTargetNotDirectChild" \in Returned

(***************************************************************************)
(* C8: target checks without a resolved attach point                       *)
(***************************************************************************)
\* C8: when attach_snapshot is set and names no node or several nodes of a present
\* tree while nodes named target_snapshot exist, the run ends in the internal
\* error (the panic) and computes no target error against a substitute attach
\* point.
C8_UnresolvedAttachIsInternalError ==
    (/\ pc \in {"return", "done", "panic"} /\ TreePresent
     /\ c.AttachSnapshot # "" /\ ~AttachUnique
     /\ c.TargetSnapshot # "" /\ Named(c.TargetSnapshot) # {})
        => /\ pc = "panic"
           /\ ErrorSet(errs) \cap TargetErrorKinds = {}

(***************************************************************************)
(* C9: NewDriver or LoadSnapshots fails                                    *)
(***************************************************************************)
FetchFailed == driver = "failed" \/ load = "failed"

\* the failure is returned as one error
OneFetchError ==
    Cardinality({ i \in 1..Len(ret.err) :
                    ret.err[i] \in {"ErrDriver", "ErrLoadSnapshots"} }) = 1

\* C9 as stated: when NewDriver or LoadSnapshots fails, the failure is returned as
\* one error, the field errors collected before are returned with it, and no
\* snapshot-constraint error is returned.
C9_FetchFailureNoConstraintError ==
    (Finished /\ FetchFailed) =>
        /\ OneFetchError
        /\ FieldErrorsReturned
        /\ Returned \cap ConstraintErrors = {}

\* C9 amended: when NewDriver or LoadSnapshots fails, the failure is returned as
\* one error, the field errors collected before are returned with it, and no
\* snapshot-constraint error that depends on the tree is returned; the only
\* constraint error that can accompany it is ErrSameAttachAndTarget, returned iff
\* the driver was created and attach_snapshot = target_snapshot is non-empty.
C9_FetchFailureOnlySameError ==
    (Finished /\ FetchFailed) =>
        /\ OneFetchError
        /\ FieldErrorsReturned
        /\ Returned \cap ConstraintErrors =
              IF driver = "ok" /\ SameNames THEN {"ErrSameAttachAndTarget"} ELSE {}

\* LoadSnapshots failed with attach_snapshot and target_snapshot set and a field
\* error collected before
C9_Witness ==
    /\ Finished /\ load = "failed"
    /\ c.AttachSnapshot # "" /\ c.TargetSnapshot # ""
    /\ c.AttachSnapshot # c.TargetSnapshot
    /\ Returned = {"ErrInvalidMode", "ErrLoadSnapshots"}

(***************************************************************************)
(* C10: warnings and the returned error                                    *)
(***************************************************************************)
\* C10: after a successful Decode, Prepare returns a non-nil error iff errors were
\* accumulated, and in both cases returns the warnings: the changes-lost warning
\* iff target_snapshot is empty and skip_export is set, the forced-halt warning
\* iff shutdown_command is empty.
C10_WarningsNeverBlock ==
    Finished =>
        /\ ret.isNil <=> (Len(errs) = 0)
        /\ ~ret.isNil => ret.err = errs
        /\ ret.warnings = warnings
        /\ ("WarnChangesLost" \in ErrorSet(ret.warnings))
               <=> (c.TargetSnapshot = "" /\ c.SkipExport)
        /\ ("WarnForcedHalt" \in ErrorSet(ret.warnings))
               <=> (c.ShutdownCommand = "")
        /\ Len(ret.warnings) = Cardinality(ErrorSet(ret.warnings))

\* Prepare succeeds although both warnings are returned
C10_Witness ==
    /\ Finished /\ ret.isNil
    /\ ErrorSet(ret.warnings) = {"WarnChangesLost", "WarnForcedHalt"}
====
